---- MODULE Spec2Model ----
(***************************************************************************)
(* Typewriter text overlay (streamlit_app.py): the Streamlit script run,   *)
(* overlay_text_on_video and generate_typewriter_clips as a state machine. *)
(*                                                                         *)
(* Strings are sequences of one-character strings.  Durations are Python   *)
(* floats, computed bit for bit.  Font metrics come from the font file and *)
(* are an environment choice.                                              *)
(***************************************************************************)
EXTENDS Integers, Sequences, FiniteSets, TLC

\* ---------------------------------------------------------------- bounds
MaxTextLen == 7
MaxD == 2
MaxV == 2
MaxK == 1

\* ------------------------------------------------------ program constants
MAX_CHARS == 400
FRAME_SKIP == 2
MinUsableWidth == 100
Margin == 40
ResizeHeight == 720

SP == " "
NL == "\n"
Chars == {"a", SP}

\* slider values of the UI, cut to the bounds: every duration up to MaxD, no
\* outline and the thickest outline
Durations == 1..MaxD
Thicknesses == {0, MaxK}
FontSizes == {48, 100}
\* properties of the uploaded video as the decoder reports them
VideoSizes == {<<560, 1440>>}
VideoDurations == 1..MaxV

RECURSIVE SeqsUpTo(_)
SeqsUpTo(n) ==
  IF n = 0 THEN {<<>>}
  ELSE LET S == SeqsUpTo(n - 1)
       IN S \cup {Append(s, c) : s \in {t \in S : Len(t) = n - 1}, c \in Chars}

\* a text of 12 letters: wrapped at 4 per line it has 14 characters, 7 frames
LongText == [k \in 1..12 |-> "a"]

Texts == SeqsUpTo(MaxTextLen) \cup {LongText}

Max(a, b) == IF a >= b THEN a ELSE b
Min(a, b) == IF a <= b THEN a ELSE b

\* ------------------------------------------------- Python float (binary64)
\* A positive float is [sig, exp]: sig holds its 53-bit significand as three
\* limbs of 20 bits, least significant first (sig[3] in 2^12..2^13-1), and
\* its value is (sig[3] * 2^40 + sig[2] * 2^20 + sig[1]) * 2^exp; e.g.
\* 2.5 = [sig |-> <<0, 0, 5120>>, exp |-> -51].  Zero is FZero.  Every
\* operation rounds to nearest, ties to even, as the hardware does.
LimbBits == 20
Precision == 53

Pow2(n) == 2 ^ n
Base == Pow2(LimbBits)

\* number of bits of a limb
BitLen(n) == CHOOSE k \in 0..LimbBits : n < Pow2(k) /\ (k = 0 \/ n >= Pow2(k - 1))

\* number of bits of a natural number given by its limbs, least significant
\* first
BigBitLen(N) ==
  IF \A j \in 1..Len(N) : N[j] = 0 THEN 0
  ELSE LET t == CHOOSE j \in 1..Len(N) : N[j] # 0 /\ \A m \in (j + 1)..Len(N) : N[m] = 0
       IN LimbBits * (t - 1) + BitLen(N[t])

\* what limb j gives to the bits p .. p+w-1 of N, as a number below 2^w
LimbPart(N, j, p, w) ==
  LET rel == LimbBits * (j - 1) - p IN
  IF rel >= w THEN 0
  ELSE IF rel >= 0 THEN (N[j] % Pow2(w - rel)) * Pow2(rel)
  ELSE IF 0 - rel >= LimbBits THEN 0
  ELSE (N[j] \div Pow2(0 - rel)) % Pow2(w)

RECURSIVE ExtractFrom(_, _, _, _)
ExtractFrom(N, j, p, w) ==
  IF j > Len(N) THEN 0 ELSE LimbPart(N, j, p, w) + ExtractFrom(N, j + 1, p, w)

\* the bits p .. p+w-1 of N (bit 0 the least significant), w <= 27
Extract(N, p, w) == ExtractFrom(N, 1, p, w)

\* some bit of N below bit p is set
LowNonZero(N, p) ==
  \E j \in 1..Len(N) :
    \/ LimbBits * j <= p /\ N[j] # 0
    \/ /\ LimbBits * (j - 1) < p
       /\ p < LimbBits * j
       /\ N[j] % Pow2(p - LimbBits * (j - 1)) # 0

\* the float nearest to N * 2^e, for N of at least 54 bits; sticky: a
\* non-zero remainder lies below the last bit of N
FRound(N, e, sticky) ==
  LET sh == BigBitLen(N) - Precision
      s1 == Extract(N, sh, LimbBits)
      s2 == Extract(N, sh + LimbBits, LimbBits)
      s3 == Extract(N, sh + 2 * LimbBits, Precision - 2 * LimbBits)
      guard == Extract(N, sh - 1, 1)
      up == guard = 1 /\ (sticky \/ LowNonZero(N, sh - 1) \/ s1 % 2 = 1)
      c1 == IF up /\ s1 + 1 = Base THEN 1 ELSE 0
      c2 == IF c1 = 1 /\ s2 + 1 = Base THEN 1 ELSE 0
      t1 == IF up THEN (s1 + 1) % Base ELSE s1
      t2 == (s2 + c1) % Base
      t3 == s3 + c2
  IN IF t3 = Pow2(Precision - 2 * LimbBits)
     THEN [sig |-> <<0, 0, t3 \div 2>>, exp |-> e + sh + 1]
     ELSE [sig |-> <<t1, t2, t3>>, exp |-> e + sh]

FZero == [sig |-> <<0, 0, 0>>, exp |-> 0]

\* float(n), 0 <= n < 2^20
FromInt(n) ==
  IF n = 0 THEN FZero ELSE FRound(<<0, 0, 0, n>>, 0 - 3 * LimbBits, FALSE)

\* long division by b of r followed by k zero limbs: the k quotient limbs,
\* least significant first, and the remainder
RECURSIVE DivLimbs(_, _, _)
DivLimbs(r, b, k) ==
  IF k = 0 THEN [q |-> <<>>, r |-> r]
  ELSE LET t == r * Base
           rest == DivLimbs(t % b, b, k - 1)
       IN [q |-> Append(rest.q, t \div b), r |-> rest.r]

\* a / b for integers 1 <= a < 2^20, 1 <= b < 2^11 (Python's true division)
FDiv(a, b) ==
  LET d == DivLimbs(a % b, b, 5)
  IN FRound(Append(d.q, a \div b), 0 - 5 * LimbBits, d.r # 0)

\* N * 2^r for r < 20, one limb longer than N
ShiftBits(N, r) ==
  [j \in 1..(Len(N) + 1) |->
     (IF j <= Len(N) THEN (N[j] % Pow2(LimbBits - r)) * Pow2(r) ELSE 0)
     + (IF j >= 2 THEN N[j - 1] \div Pow2(LimbBits - r) ELSE 0)]

\* N * 2^s
ShiftLeft(N, s) == [j \in 1..(s \div LimbBits) |-> 0] \o ShiftBits(N, s % LimbBits)

\* A + B + c from limb j on, A and B of one length
RECURSIVE AddFrom(_, _, _, _)
AddFrom(A, B, j, c) ==
  IF j > Len(A) THEN <<c>>
  ELSE LET t == A[j] + B[j] + c
       IN <<t % Base>> \o AddFrom(A, B, j + 1, t \div Base)

AddBig(A, B) ==
  LET L == Max(Len(A), Len(B))
  IN AddFrom(A \o [j \in 1..(L - Len(A)) |-> 0], B \o [j \in 1..(L - Len(B)) |-> 0], 1, 0)

\* x + y
FAdd(x, y) ==
  IF x = FZero THEN y
  ELSE IF y = FZero THEN x
  ELSE IF x.exp - y.exp > 3 * LimbBits THEN x
  ELSE IF y.exp - x.exp > 3 * LimbBits THEN y
  ELSE LET e == Min(x.exp, y.exp)
           N == AddBig(ShiftLeft(x.sig, x.exp - e), ShiftLeft(y.sig, y.exp - e))
       IN FRound(<<0>> \o N, e - LimbBits, FALSE)

\* x <= y
FLeq(x, y) ==
  IF x = FZero THEN TRUE
  ELSE IF y = FZero THEN FALSE
  ELSE \/ x.exp < y.exp
       \/ /\ x.exp = y.exp
          /\ \/ x.sig[3] < y.sig[3]
             \/ x.sig[3] = y.sig[3] /\ x.sig[2] < y.sig[2]
             \/ x.sig[3] = y.sig[3] /\ x.sig[2] = y.sig[2] /\ x.sig[1] <= y.sig[1]

\* np.cumsum([0] + [c.duration for c in clips])[-1], from clip k on with the
\* running sum acc.  The two nested concatenations of lines 106 and 109 add
\* in the same order: the reveal clips left to right, then the held clip.
RECURSIVE CumSum(_, _, _)
CumSum(cs, k, acc) ==
  IF k > Len(cs) THEN acc ELSE CumSum(cs, k + 1, FAdd(acc, cs[k].duration))

\* the duration of the concatenation of the clips cs
TotalDuration(cs) == CumSum(cs, 1, FZero)

\* --------------------------------------------------------- str helpers
\* str.strip() is empty: only whitespace
IsBlank(s) == \A k \in 1..Len(s) : s[k] = SP

\* s[:n]
Prefix(s, n) == SubSeq(s, 1, Min(n, Len(s)))

RECURSIVE Flatten(_)
Flatten(ss) == IF ss = <<>> THEN <<>> ELSE Head(ss) \o Flatten(Tail(ss))

\* "\n".join(lines)
RECURSIVE JoinLines(_)
JoinLines(ls) ==
  IF ls = <<>> THEN <<>>
  ELSE IF Len(ls) = 1 THEN ls[1]
  ELSE ls[1] \o <<NL>> \o JoinLines(Tail(ls))

\* s.split("\n")
RECURSIVE SplitLines(_)
SplitLines(s) ==
  IF \A k \in 1..Len(s) : s[k] # NL THEN <<s>>
  ELSE LET p == CHOOSE k \in 1..Len(s) : s[k] = NL /\ \A j \in 1..(k - 1) : s[j] # NL
       IN <<SubSeq(s, 1, p - 1)>> \o SplitLines(SubSeq(s, p + 1, Len(s)))

\* ------------------------------------------------------- textwrap.wrap
\* TextWrapper._split: maximal runs of whitespace and of word characters
RECURSIVE Chunks(_)
Chunks(s) ==
  IF s = <<>> THEN <<>>
  ELSE LET same(k) == (s[k] = SP) <=> (s[1] = SP)
           e == CHOOSE k \in 1..Len(s) :
                  /\ \A j \in 1..k : same(j)
                  /\ (k = Len(s) \/ ~same(k + 1))
       IN <<SubSeq(s, 1, e)>> \o Chunks(SubSeq(s, e + 1, Len(s)))

\* the inner while loop of _wrap_chunks: take chunks while they fit
RECURSIVE FillLine(_, _, _, _)
FillLine(chunks, cur_line, cur_len, width) ==
  IF chunks # <<>> /\ cur_len + Len(Head(chunks)) <= width
  THEN FillLine(Tail(chunks), Append(cur_line, Head(chunks)),
                cur_len + Len(Head(chunks)), width)
  ELSE [chunks |-> chunks, cur_line |-> cur_line, cur_len |-> cur_len]

\* the same with break_long_words=False: a long word stays whole
HandleLongWordWhole(chunks, cur_line, cur_len, width) ==
  IF cur_line = <<>>
  THEN [chunks |-> Tail(chunks), cur_line |-> <<Head(chunks)>>]
  ELSE [chunks |-> chunks, cur_line |-> cur_line]

\* TextWrapper._handle_long_word with break_long_words=True
HandleLongWord(chunks, cur_line, cur_len, width) ==
  LET space_left == IF width < 1 THEN 1 ELSE width - cur_len
      chunk == Head(chunks)
  IN [chunks |-> <<SubSeq(chunk, space_left + 1, Len(chunk))>> \o Tail(chunks),
      cur_line |-> Append(cur_line, SubSeq(chunk, 1, space_left))]

\* one pass of the outer while loop of _wrap_chunks, until no chunk is left
RECURSIVE WrapChunks(_, _, _)
WrapChunks(chunks, lines, width) ==
  IF chunks = <<>> THEN lines
  ELSE
    LET c0 == IF IsBlank(Head(chunks)) /\ lines # <<>> THEN Tail(chunks) ELSE chunks
        f == FillLine(c0, <<>>, 0, width)
        g == IF f.chunks # <<>> /\ Len(Head(f.chunks)) > width
             THEN HandleLongWord(f.chunks, f.cur_line, f.cur_len, width)
             ELSE [chunks |-> f.chunks, cur_line |-> f.cur_line]
        cl == IF g.cur_line # <<>> /\ IsBlank(g.cur_line[Len(g.cur_line)])
              THEN SubSeq(g.cur_line, 1, Len(g.cur_line) - 1)
              ELSE g.cur_line
    IN WrapChunks(g.chunks, IF cl # <<>> THEN Append(lines, Flatten(cl)) ELSE lines, width)

\* textwrap.wrap(text, width=width)
Wrap(text, width) == WrapChunks(Chunks(text), <<>>, width)

\* ------------------------------------------- generate_typewriter_clips
\* int(x * OVERLAY_SCALE) with OVERLAY_SCALE = 0.5, x >= 0
Scale(x) == x \div 2

ScaledSize(size) == <<Scale(size[1]), Scale(size[2])>>
ScaledFontSize(fs) == Scale(fs)
UsableWidth(scaled_size) == Max(scaled_size[1] - Margin, MinUsableWidth)
AvgCharWidth(scaled_font_size) == Max(scaled_font_size \div 2, 1)
MaxCharsPerLine(size, fs) ==
  Max(1, UsableWidth(ScaledSize(size)) \div AvgCharWidth(ScaledFontSize(fs)))

\* "\n".join(wrapped_lines)[:MAX_CHARS]
FullText(lines) == Prefix(JoinLines(lines), MAX_CHARS)

StepCount(num_chars) == Max(1, num_chars \div FRAME_SKIP)
\* duration / max(1, num_chars // FRAME_SKIP)
CharDuration(d, num_chars) == FDiv(d, StepCount(num_chars))

\* range(1, num_chars + 1, FRAME_SKIP): is i still in the range
\* slip: range(1, num_chars, FRAME_SKIP)
InRangeExclusive(idx, num_chars) == idx < num_chars

InRange(idx, num_chars) == idx <= num_chars
NextIndex(idx) == idx + FRAME_SKIP

\* font.getbbox(line) / draw.textbbox((0, 0), line, font): (left, top, right,
\* bottom) of a single line, from the font's left and top bearings, its
\* advance per character and its glyph height.
GetBBox(fnt, line) ==
  <<fnt.left, fnt.top, fnt.left + Len(line) * fnt.adv, fnt.top + fnt.height>>

\* ImageFont.truetype(font_path, size) or, failing that, load_default(): a
\* font whose glyph boxes start at the origin, or one with left and top
\* bearings; advance and height are the nominal ones of the scaled size
Fonts(sfs) ==
  {[left |-> b[1], top |-> b[2], adv |-> AvgCharWidth(sfs), height |-> sfs] :
     b \in {<<0, 0>>, <<sfs \div 10, sfs \div 5>>}}

\* the term of a line in total_text_height
LineHeight(fnt, sfs, line) ==
  IF ~IsBlank(line) THEN GetBBox(fnt, line)[4] ELSE sfs \div 2

\* what y is advanced by after a line
LineAdvance(fnt, sfs, line) ==
  IF IsBlank(line) THEN sfs \div 2
  ELSE GetBBox(fnt, line)[4] - GetBBox(fnt, line)[2]

RECURSIVE SumSeq(_)
SumSeq(s) == IF s = <<>> THEN 0 ELSE Head(s) + SumSeq(Tail(s))

\* for dx in range(-K, K + 1): for dy in range(-K, K + 1): skip (0, 0)
\* slip: range(-K, K) in both loops
OutlineOffsetsShort(K) ==
  LET n == 2 * K
      all == [k \in 1..(n * n) |-> <<((k - 1) \div n) - K, ((k - 1) % n) - K>>]
  IN SelectSeq(all, LAMBDA o : o # <<0, 0>>)

OutlineOffsets(K) ==
  LET n == 2 * K + 1
      all == [k \in 1..(n * n) |-> <<((k - 1) \div n) - K, ((k - 1) % n) - K>>]
  IN SelectSeq(all, LAMBDA o : o # <<0, 0>>)

\* the draw.text calls of one non-blank line, in call order
DrawLine(l, line, x, y, K) ==
  LET offs == OutlineOffsets(K)
  IN [k \in 1..Len(offs) |->
        [line |-> l, pos |-> <<x + offs[k][1], y + offs[k][2]>>,
         text |-> line, fill |-> "outline_color"]]
     \o <<[line |-> l, pos |-> <<x, y>>, text |-> line, fill |-> "text_color"]>>

\* the body of `for line in lines`, from line l on
RECURSIVE RenderLines(_, _, _, _, _, _, _)
RenderLines(lines, l, y, fnt, sfs, scaled_size, K) ==
  IF l > Len(lines) THEN [draws |-> <<>>, y |-> y]
  ELSE IF IsBlank(lines[l])
  THEN RenderLines(lines, l + 1, y + LineAdvance(fnt, sfs, lines[l]), fnt, sfs, scaled_size, K)
  ELSE LET bbox == GetBBox(fnt, lines[l])
           line_width == bbox[3] - bbox[1]
           x == (scaled_size[1] - line_width) \div 2
           rest == RenderLines(lines, l + 1, y + LineAdvance(fnt, sfs, lines[l]),
                               fnt, sfs, scaled_size, K)
       IN [draws |-> DrawLine(l, lines[l], x, y, K) \o rest.draws, y |-> rest.y]

\* one iteration of `for i in range(...)`: the image of full_text[:i]
RenderFrame(current_text, fnt, sfs, scaled_size, K) ==
  LET lines == SplitLines(current_text)
      heights == [l \in 1..Len(lines) |-> LineHeight(fnt, sfs, lines[l])]
      total_text_height == SumSeq(heights)
      y0 == (scaled_size[2] - total_text_height) \div 2
      r == RenderLines(lines, 1, y0, fnt, sfs, scaled_size, K)
  IN [lines |-> lines, heights |-> heights,
      advances |-> [l \in 1..Len(lines) |-> LineAdvance(fnt, sfs, lines[l])],
      total_text_height |-> total_text_height,
      y0 |-> y0, y_end |-> r.y, draws |-> r.draws]

\* ------------------------------------------------ overlay_text_on_video
\* video.resize(height=720)
Resized(size) == <<(size[1] * ResizeHeight) \div size[2], ResizeHeight>>

HoldNeeded(video_duration, animation_duration) == video_duration > animation_duration

\* text_clips[-1].set_duration(video.duration - animation_duration); the
\* durations of the videos modelled are whole seconds, their difference exact
HoldClip(text_clips, video_duration, animation_duration) ==
  [text_clips[Len(text_clips)] EXCEPT
     !.duration = FromInt(video_duration - animation_duration)]

\* raise RuntimeError(f"Video generation failed: {e}")
\* slip: the cause re-raised without the prefix
WrapErrorBare(e) == [prefix |-> "", cause |-> e]

WrapError(e) == [prefix |-> "Video generation failed: ", cause |-> e]

\* os.path.getsize(input_path) == 0
\* slip: a size test that a zero-byte file passes
IsEmptyFileNeg(bytes) == bytes < 0

IsEmptyFile(bytes) == bytes = 0

\* if uploaded_file and text_input
Submitted(up, txt) == up /\ txt # <<>>

None == [none |-> TRUE]
Stages == {"decode", "resize", "generate", "render", "concat", "hold", "composite", "encode"}

VARIABLES pc, uploaded_file, file_bytes, text_input, duration, font_size,
          outline_thickness, input_saved, output_created, calls, video,
          font, wrapped_lines, full_text, char_duration, i, clips, frame,
          text_anim, output_written, raised, ui

vars == <<pc, uploaded_file, file_bytes, text_input, duration, font_size,
          outline_thickness, input_saved, output_created, calls, video,
          font, wrapped_lines, full_text, char_duration, i, clips, frame,
          text_anim, output_written, raised, ui>>

inputs == <<uploaded_file, file_bytes, text_input, duration, font_size, outline_thickness>>
gen == <<font, wrapped_lines, full_text, char_duration, i, clips, frame>>

Init ==
  /\ pc = "widgets"
  /\ uploaded_file = FALSE /\ file_bytes = 0 /\ text_input = <<>>
  /\ duration = 5 /\ font_size = 48 /\ outline_thickness = 2
  /\ input_saved = FALSE /\ output_created = FALSE /\ calls = 0
  /\ video = None /\ font = None
  /\ wrapped_lines = <<>> /\ full_text = <<>> /\ char_duration = None
  /\ i = 0 /\ clips = <<>> /\ frame = None /\ text_anim = <<>>
  /\ output_written = FALSE /\ raised = <<>> /\ ui = <<>>

\* the widgets of the page deliver the user's values (lines 121-136)
Widgets ==
  /\ pc = "widgets"
  /\ \E up \in BOOLEAN, b \in 0..1, t \in Texts, d \in Durations,
        fs \in FontSizes, k \in Thicknesses :
       /\ (~up => b = 0)
       /\ uploaded_file' = up /\ file_bytes' = b /\ text_input' = t
       /\ duration' = d /\ font_size' = fs /\ outline_thickness' = k
  /\ pc' = "script"
  /\ UNCHANGED <<input_saved, output_created, calls, video, gen, text_anim,
                 output_written, raised, ui>>

\* lines 138-148: save the upload, check its size, create the output file
RunScript ==
  /\ pc = "script"
  /\ IF ~Submitted(uploaded_file, text_input)
     THEN /\ pc' = "done"
          /\ UNCHANGED <<input_saved, output_created, calls, ui>>
     ELSE /\ input_saved' = TRUE
          /\ IF IsEmptyFile(file_bytes)
             THEN /\ ui' = Append(ui, [kind |-> "error",
                                    msg |-> [prefix |-> "Uploaded video file is empty or corrupted.",
                                             e |-> None]])
                  /\ pc' = "done"
                  /\ UNCHANGED <<output_created, calls>>
             ELSE /\ output_created' = TRUE
                  /\ calls' = calls + 1
                  /\ pc' = "decode"
                  /\ UNCHANGED ui
  /\ UNCHANGED <<inputs, video, gen, text_anim, output_written, raised>>

\* video = VideoFileClip(input_path)
Decode ==
  /\ pc = "decode"
  /\ \E sz \in VideoSizes, v \in VideoDurations :
       video' = [size |-> sz, duration |-> v]
  /\ pc' = "resize"
  /\ UNCHANGED <<inputs, input_saved, output_created, calls, gen, text_anim,
                 output_written, raised, ui>>

\* video = video.resize(height=720)
Resize ==
  /\ pc = "resize"
  /\ video' = [video EXCEPT !.size = Resized(video.size)]
  /\ pc' = "generate"
  /\ UNCHANGED <<inputs, input_saved, output_created, calls, gen, text_anim,
                 output_written, raised, ui>>

\* generate_typewriter_clips, lines 38-56: font, wrapping, timing
Generate ==
  /\ pc = "generate"
  /\ \E f \in Fonts(ScaledFontSize(font_size)) : font' = f
  /\ LET lines == Wrap(text_input, MaxCharsPerLine(video.size, font_size))
         ft == FullText(lines)
     IN /\ wrapped_lines' = lines
        /\ full_text' = ft
        /\ char_duration' = CharDuration(duration, Len(ft))
        /\ pc' = IF InRange(1, Len(ft)) THEN "render" ELSE "concat"
  /\ i' = 1
  /\ clips' = <<>>
  /\ UNCHANGED <<inputs, input_saved, output_created, calls, video, frame,
                 text_anim, output_written, raised, ui>>

\* generate_typewriter_clips, lines 58-89: one iteration of the frame loop
Render ==
  /\ pc = "render"
  /\ InRange(i, Len(full_text))
  /\ LET current_text == Prefix(full_text, i)
     IN /\ frame' = RenderFrame(current_text, font, ScaledFontSize(font_size),
                                ScaledSize(video.size), outline_thickness)
        /\ clips' = Append(clips, [i |-> i, text |-> current_text,
                                   duration |-> char_duration])
  /\ i' = NextIndex(i)
  /\ pc' = IF InRange(NextIndex(i), Len(full_text)) THEN "render" ELSE "concat"
  /\ UNCHANGED <<inputs, input_saved, output_created, calls, video, font,
                 wrapped_lines, full_text, char_duration, text_anim,
                 output_written, raised, ui>>

\* text_anim = concatenate_videoclips(text_clips); with no clip, moviepy's
\* max() over the clips' sizes raises ValueError
Concat ==
  /\ pc = "concat"
  /\ IF clips = <<>>
     THEN /\ raised' = Append(raised, WrapError([type |-> "ValueError", at |-> "concat"]))
          /\ pc' = "raised"
          /\ UNCHANGED text_anim
     ELSE /\ text_anim' = clips
          /\ pc' = "hold"
          /\ UNCHANGED raised
  /\ UNCHANGED <<inputs, input_saved, output_created, calls, video, gen,
                 output_written, ui>>

\* lines 107-109: hold the last clip for the rest of the video
Hold ==
  /\ pc = "hold"
  /\ text_anim' = IF HoldNeeded(video.duration, duration)
                  THEN Append(text_anim, HoldClip(clips, video.duration, duration))
                  ELSE text_anim
  /\ pc' = "composite"
  /\ UNCHANGED <<inputs, input_saved, output_created, calls, video, gen,
                 output_written, raised, ui>>

\* lines 111-112: position the overlay and composite it over the video
Composite ==
  /\ pc = "composite"
  /\ pc' = "encode"
  /\ UNCHANGED <<inputs, input_saved, output_created, calls, video, gen,
                 text_anim, output_written, raised, ui>>

\* final.write_videofile(output_path, ...)
Encode ==
  /\ pc = "encode"
  /\ output_written' = TRUE
  /\ pc' = "returned"
  /\ UNCHANGED <<inputs, input_saved, output_created, calls, video, gen,
                 text_anim, raised, ui>>

\* a library call of the current stage raises; lines 115-116 wrap it
LibraryFailure ==
  /\ pc \in Stages
  /\ raised' = Append(raised, WrapError([type |-> "LibraryError", at |-> pc]))
  /\ pc' = "raised"
  /\ UNCHANGED <<inputs, input_saved, output_created, calls, video, gen,
                 text_anim, output_written, ui>>

\* lines 156-159: success message, player and download button
ReportSuccess ==
  /\ pc = "returned"
  /\ ui' = ui \o <<[kind |-> "success"], [kind |-> "video"], [kind |-> "download"]>>
  /\ pc' = "done"
  /\ UNCHANGED <<inputs, input_saved, output_created, calls, video, gen,
                 text_anim, output_written, raised>>

\* lines 160-161: st.error(f"Error: {e}")
ReportError ==
  /\ pc = "raised"
  /\ ui' = Append(ui, [kind |-> "error",
                     msg |-> [prefix |-> "Error: ", e |-> raised[Len(raised)]]])
  /\ pc' = "done"
  /\ UNCHANGED <<inputs, input_saved, output_created, calls, video, gen,
                 text_anim, output_written, raised>>

Next ==
  \/ Widgets \/ RunScript \/ Decode \/ Resize \/ Generate \/ Render
  \/ Concat \/ Hold \/ Composite \/ Encode \/ LibraryFailure
  \/ ReportSuccess \/ ReportError

Spec == Init /\ [][Next]_vars

\* ==================================================== properties
\* generate_typewriter_clips has returned its clips
Generated == pc \in {"concat", "hold", "composite", "encode", "returned"}

\* the overlay sequence is assembled (lines 106-109 have run)
Assembled == pc \in {"composite", "encode", "returned"} \/ (pc = "done" /\ output_written)

\* the text has been wrapped (Generate has run)
Wrapped == i >= 1

\* C1 (as claimed): once the overlay sequence is assembled, a video longer
\* than the animation (V > D) is covered: the frame durations, summed as
\* floats the way moviepy sums them, reach at least V; with V <= D the
\* sequence is the reveal frames alone; in both cases the total is at least
\* min(D, V).
HoldExtensionLaw ==
  Assembled =>
    /\ video.duration > duration =>
         /\ FLeq(FromInt(video.duration), TotalDuration(text_anim))
         /\ Len(text_anim) = Len(clips) + 1
    /\ video.duration <= duration => text_anim = clips
    /\ FLeq(FromInt(Min(duration, video.duration)), TotalDuration(text_anim))

\* C2 (as claimed): with V > D the held frame, the last of the sequence,
\* shows the whole wrapped text.
HeldFrameFullyRevealed ==
  (Assembled /\ video.duration > duration) =>
    text_anim[Len(text_anim)].text = full_text

\* C3 (as claimed): with V > D the reveal frames last exactly D and the whole
\* sequence lasts exactly V.
TotalEqualsVideoDuration ==
  (Assembled /\ video.duration > duration) =>
    /\ TotalDuration(clips) = FromInt(duration)
    /\ TotalDuration(text_anim) = FromInt(video.duration)

\* C4 (as claimed): a text that wraps to nothing gives 0 frames and the
\* pipeline still succeeds, unless a library call fails.
EmptyTextSucceeds ==
  (pc = "done" /\ Wrapped /\ full_text = <<>>) =>
    /\ clips = <<>>
    /\ \/ output_written /\ \E k \in 1..Len(ui) : ui[k].kind = "success"
       \/ \E k \in 1..Len(raised) : raised[k].cause.type = "LibraryError"

\* C5: the clips are the prefixes of length 1, 1+s, 1+2s, ... <= n in that
\* order, each of duration D / max(1, n div s), the divisor at least 1; for
\* n = 5 and s = 2 these are the prefixes 1, 3, 5 with duration D / 2.
RevealSchedule ==
  Generated =>
    LET n == Len(full_text) IN
    /\ Len(clips) = (n + FRAME_SKIP - 1) \div FRAME_SKIP
    /\ \A k \in 1..Len(clips) :
         /\ clips[k].i = 1 + (k - 1) * FRAME_SKIP
         /\ clips[k].i <= n
         /\ clips[k].text = SubSeq(full_text, 1, clips[k].i)
         /\ clips[k].duration = char_duration
    /\ LET divisor == IF n \div FRAME_SKIP >= 1 THEN n \div FRAME_SKIP ELSE 1
       IN divisor >= 1 /\ char_duration = FDiv(duration, divisor)
    /\ n = 5 => /\ [k \in 1..Len(clips) |-> Len(clips[k].text)] = <<1, 3, 5>>
                /\ char_duration = FDiv(duration, 2)

RevealScheduleWitness ==
  /\ Generated
  /\ Len(full_text) = 5
  /\ Len(clips) = 3
  /\ clips[3].text = full_text

\* words of a string: its maximal runs of non-space characters
Words(s) == SelectSeq(Chunks(s), LAMBDA c : ~IsBlank(c))
NonSpace(s) == SelectSeq(s, LAMBDA c : c # SP)

RECURSIVE WordsOfLines(_)
WordsOfLines(ls) == IF ls = <<>> THEN <<>> ELSE Words(Head(ls)) \o WordsOfLines(Tail(ls))

LineBudget == MaxCharsPerLine(video.size, font_size)
EstimatedWidth(line) == Len(line) * AvgCharWidth(ScaledFontSize(font_size))

\* C6 (as claimed): every line's estimated width is within the usable width
\* unless the line is one word longer than the budget; no word is split, a
\* word longer than the budget standing on a line of its own.
WrapperOwnLine ==
  Wrapped =>
    /\ \A l \in 1..Len(wrapped_lines) :
         \/ EstimatedWidth(wrapped_lines[l]) <= UsableWidth(ScaledSize(video.size))
         \/ Words(wrapped_lines[l]) = <<wrapped_lines[l]>> /\ Len(wrapped_lines[l]) > LineBudget
    /\ WordsOfLines(wrapped_lines) = Words(text_input)
    /\ \A l \in 1..Len(wrapped_lines) :
         (\E w \in 1..Len(Words(wrapped_lines[l])) :
            Len(Words(wrapped_lines[l])[w]) > LineBudget)
         => Words(wrapped_lines[l]) = <<wrapped_lines[l]>>

\* number of non-space characters in the first k lines
RECURSIVE CharsBefore(_, _)
CharsBefore(ls, k) == IF k = 0 THEN 0 ELSE Len(NonSpace(ls[k])) + CharsBefore(ls, k - 1)

\* C6 (amended): every line has between 1 and max_chars_per_line characters,
\* none excepted, so its estimated width is within the usable width; the
\* non-space characters are kept in order; a line break falls inside a word
\* only if the word is longer than the budget.
WrapperFits ==
  Wrapped =>
    LET ws == Words(text_input) IN
    /\ \A l \in 1..Len(wrapped_lines) :
         /\ Len(wrapped_lines[l]) >= 1
         /\ Len(wrapped_lines[l]) <= LineBudget
         /\ ~IsBlank(wrapped_lines[l])
         /\ EstimatedWidth(wrapped_lines[l]) <= UsableWidth(ScaledSize(video.size))
    /\ NonSpace(Flatten(wrapped_lines)) = NonSpace(text_input)
    /\ \A l \in 1..(Len(wrapped_lines) - 1) : \A w \in 1..Len(ws) :
         LET start == CharsBefore(ws, w - 1)
             b == CharsBefore(wrapped_lines, l)
         IN (start < b /\ b < start + Len(ws[w])) => Len(ws[w]) > LineBudget

\* a word longer than the budget is broken and shares a line with the word
\* before it
WrapperFitsWitness ==
  /\ Wrapped
  /\ text_input = <<"a", SP, "a", "a", "a", "a", "a">>
  /\ LineBudget = 4
  /\ wrapped_lines = << <<"a", SP, "a", "a">>, <<"a", "a", "a">> >>

\* C7: in the frame just rendered, every non-blank line has one fill draw at
\* its (x, y), issued after all its outline draws, and outline draws at
\* exactly the offsets of [-K, K] x [-K, K] other than (0, 0), each once;
\* blank lines have no draw.
OutlineSymmetry ==
  clips # <<>> =>
    LET K == outline_thickness
        ds == frame.draws
        Of(l) == {k \in 1..Len(ds) : ds[k].line = l}
    IN /\ \A k \in 1..Len(ds) : ds[k].line \in 1..Len(frame.lines)
       /\ \A l \in 1..Len(frame.lines) :
            IF IsBlank(frame.lines[l]) THEN Of(l) = {}
            ELSE \E f \in Of(l) :
                   /\ ds[f].fill = "text_color"
                   /\ \A k \in Of(l) : ds[k].text = frame.lines[l]
                   /\ \A k \in Of(l) \ {f} : ds[k].fill = "outline_color" /\ k < f
                   /\ {<<ds[k].pos[1] - ds[f].pos[1], ds[k].pos[2] - ds[f].pos[2]>> :
                         k \in Of(l) \ {f}}
                      = ((-K..K) \X (-K..K)) \ {<<0, 0>>}
                   /\ Cardinality(Of(l) \ {f}) = (2 * K + 1) * (2 * K + 1) - 1
                   /\ K = 0 => Of(l) = {f}

OutlineSymmetryWitness ==
  /\ clips # <<>>
  /\ outline_thickness = MaxK
  /\ Len(frame.lines) = 2
  /\ ~IsBlank(frame.lines[1])
  /\ IsBlank(frame.lines[2])
  /\ Len(frame.draws) = (2 * MaxK + 1) * (2 * MaxK + 1)

\* C8: a failure inside overlay_text_on_video reaches the caller as one error
\* with the prefix "Video generation failed: " and the cause; the page then
\* shows that one error, no success message, no player, no download, and the
\* pipeline is not called again.
FailureReportedOnce ==
  /\ Len(raised) <= 1
  /\ pc = "raised" => Len(raised) = 1
  /\ \A k \in 1..Len(raised) :
       /\ raised[k].prefix = "Video generation failed: "
       /\ raised[k].cause.type \in {"LibraryError", "ValueError"}
       /\ raised[k].cause.at \in Stages
  /\ raised # <<>> =>
       /\ calls = 1
       /\ ~output_written
       /\ \A k \in 1..Len(ui) : ui[k].kind = "error"
       /\ pc \in {"raised", "done"}
       /\ pc = "done" =>
            ui = <<[kind |-> "error", msg |-> [prefix |-> "Error: ", e |-> raised[1]]]>>

FailureReportedWitness ==
  /\ pc = "done"
  /\ Len(raised) = 1
  /\ raised[1].cause = [type |-> "LibraryError", at |-> "encode"]
  /\ Len(ui) = 1

\* C9: when the saved upload has size 0 the error is shown and
\* overlay_text_on_video is never called: no decode, no output file.
EmptyUploadRejected ==
  (input_saved /\ file_bytes = 0) =>
    /\ calls = 0
    /\ ~output_created
    /\ video = None
    /\ ~output_written
    /\ pc = "done"
    /\ Len(ui) = 1
    /\ ui[1].kind = "error"
    /\ ui[1].msg.prefix = "Uploaded video file is empty or corrupted."

EmptyUploadWitness ==
  /\ pc = "done"
  /\ input_saved
  /\ file_bytes = 0
  /\ uploaded_file
  /\ Len(ui) = 1

\* C10 (as claimed): in the frame just rendered each line adds to the block
\* height what y is advanced by after it, so y ends at the starting y plus the
\* block height, the starting y being floor((canvas height - height) / 2).
VerticalCenteringConsistent ==
  clips # <<>> =>
    /\ frame.heights = frame.advances
    /\ frame.y_end = frame.y0 + frame.total_text_height
    /\ frame.y0 = (ScaledSize(video.size)[2] - frame.total_text_height) \div 2

====
